---- MODULE Spec2Model ----
(***************************************************************************)
(* Model of the client-side request facade useEnfyraApi (manual execute    *)
(* mode) and of its batch engine processBatch.                             *)
(*                                                                         *)
(* One facade instance owns the refs data / error / pending.  Every        *)
(* execute call is a coroutine: it runs synchronously up to its first      *)
(* await (launching requests on the way), is resumed when a request        *)
(* settles, and finally settles its own promise.  The steps of the model   *)
(* are the pieces of code that run without suspension.                     *)
(***************************************************************************)
EXTENDS Integers, Sequences, FiniteSets, TLC

(* ------------------------------------------------------------------ *)
(* Bounds                                                             *)
(* ------------------------------------------------------------------ *)
MaxItems == 3
MaxSize == 2
\* how far the wave loop of a call with a negative concurrent is followed
MaxSpin == 2

\* Number of ids a batch call of a sequence of calls carries.
SeqItems == 2

\* Number of ids the first of two overlapping batch calls carries.
OverlapItems == 2

\* Largest number of items of a batch whose progress percentage is computed.
MaxTotal == 201

\* Largest number of items of a batch followed with its clock.
MaxTimed == 3

\* Latest time the clock of a timed batch reaches.
MaxClock == 3

(* ------------------------------------------------------------------ *)
(* Values                                                             *)
(* ------------------------------------------------------------------ *)
\* An optional value is a set with at most one element; {} is undefined.
None == {}

Some(x) == {x}

IsSome(o) == o # {}

Get(o) == CHOOSE x \in o : TRUE

\* a ?? b
\* Variant of Coalesce: a || b, a falsy number also yields b.
CoalesceFalsy(a, b) == IF a # {} /\ a # {0} THEN a ELSE b

Coalesce(a, b) == IF a # {} THEN a ELSE b

\* JS truthiness of an optional number: undefined and 0 are falsy.
Truthy(o) == o # {} /\ o # {0}

Null == [tag |-> "null"]

Undefined == [tag |-> "undefined"]

\* Path segments are strings or numbers.
Str(s) == [t |-> "str", s |-> s]

Num(n) == [t |-> "num", n |-> n]

\* Boolean(segment): "" and 0 are falsy.
Boolean(seg) == IF seg.t = "num" THEN seg.n # 0 ELSE seg.s # ""

BasePath == Str("items")

Max(a, b) == IF a >= b THEN a ELSE b

Min(a, b) == IF a <= b THEN a ELSE b

\* Variant of Ceil: the quotient is rounded down.
CeilAsFloor(a, b) == a \div b

\* Math.ceil(a / b) for a >= 0 and b # 0.
Ceil(a, b) == IF b > 0 THEN (a + b - 1) \div b ELSE -(a \div (-b))

\* The length Array.from({length: k}) ends up with.
ArrayLength(k) == IF k < 0 THEN 0 ELSE k

\* The pairs <<completed, total>> with total below 240 at which the double
\* (completed / total) * 100 lies just under k + 0.5 while the exact quotient
\* is k + 0.5: there Math.round gives k, not k + 1.
RoundedBelowHalf ==
  {<<23, 40>>, <<46, 80>>, <<69, 120>>, <<92, 160>>,
   <<29, 200>>, <<57, 200>>, <<113, 200>>, <<115, 200>>}

\* Math.round((completed / total) * 100), total > 0: the nearest integer,
\* a half rounded up, of the product computed in doubles.
Round100(completed, total) ==
  LET exact == (200 * completed + total) \div (2 * total)
  IN IF <<completed, total>> \in RoundedBelowHalf THEN exact - 1 ELSE exact

\* The 0-based positions that Array.prototype.slice(start, end) selects from
\* an array of length len.
SliceIdx(len, start, end) ==
  LET k == IF start < 0 THEN Max(len + start, 0) ELSE Min(start, len)
      f == IF end < 0 THEN Max(len + end, 0) ELSE Min(end, len)
  IN [j \in 1..Max(f - k, 0) |-> k + j - 1]

\* Variant of Slice: the end index is taken inclusively.
SliceInclusive(s, start, end) ==
  LET idx == SliceIdx(Len(s), start, end + 1)
  IN [j \in 1..Len(idx) |-> s[idx[j] + 1]]

\* s.slice(start, end)
Slice(s, start, end) ==
  LET idx == SliceIdx(Len(s), start, end)
  IN [j \in 1..Len(idx) |-> s[idx[j] + 1]]

ToLowerCase(m) ==
  CASE m = "PATCH" -> "patch"
    [] m = "DELETE" -> "delete"
    [] m = "POST" -> "post"
    [] m = "GET" -> "get"
    [] m = "PUT" -> "put"
    [] OTHER -> m

(* ------------------------------------------------------------------ *)
(* Inputs                                                             *)
(* ------------------------------------------------------------------ *)
Calls == {"a", "b"}

Methods == {"get", "post", "PATCH", "delete"}

\* How a request can settle: answered 2xx, answered non-2xx, transport failure.
Outcomes == {"ok", "http", "network"}

\* Which callbacks the caller supplies: onProgress at creation, onError at
\* creation, onProgress to execute.  Every pair of choices occurs.
Callbacks ==
  {<<FALSE, FALSE, FALSE>>, <<TRUE, TRUE, FALSE>>,
   <<FALSE, TRUE, TRUE>>, <<TRUE, FALSE, TRUE>>}

\* Options bound when the facade is created.
FacadeOptions ==
  {o \in [method : Methods,
          disableBatch : BOOLEAN,
          batchSize : {None, Some(MaxSize)},
          concurrent : {None, Some(MaxSize)},
          onProgress : BOOLEAN,
          onError : BOOLEAN] :
     /\ (o.batchSize = None) = (o.concurrent = None)
     /\ \E cb \in Callbacks : o.onProgress = cb[1] /\ o.onError = cb[2]}

IdList(n) == [j \in 1..n |-> Num(j)]

FileList(n) == [j \in 1..n |-> [file |-> j]]

ExecSizes == {None} \cup {Some(k) : k \in (-1)..(MaxSize - 1)}

\* Options passed to one execute call.
ExecuteOptions ==
  {eo \in [id : {None, Some(Num(9))},
           ids : {None} \cup {Some(IdList(n)) : n \in 0..MaxItems},
           files : {None} \cup {Some(FileList(n)) : n \in {0, MaxItems - 1}},
           batchSize : ExecSizes,
           concurrent : ExecSizes,
           onProgress : BOOLEAN] :
     IsSome(eo.id) =>
        (eo.batchSize = None /\ eo.concurrent = None /\ ~eo.onProgress)}

\* The execute options tried on a facade created with options o.
ExecuteOptionsFor(o) ==
  {eo \in ExecuteOptions :
     \E cb \in Callbacks :
        o.onProgress = cb[1] /\ o.onError = cb[2] /\ eo.onProgress = cb[3]}

NoOptions ==
  [id |-> None, ids |-> None, files |-> None, batchSize |-> None,
   concurrent |-> None, onProgress |-> FALSE]

(* ------------------------------------------------------------------ *)
(* State                                                              *)
(* ------------------------------------------------------------------ *)
VARIABLES
  opts,     \* the options the facade was created with
  data,     \* ref data
  error,    \* ref error
  pending,  \* ref pending
  calls,    \* the execute calls: locals of execute / processBatch per call
  auth,     \* useEnfyraAuth: me, isLoading, the refs of its three facades
            \* and the position of the running login / fetchUser / logout
  meter,    \* processBatch seen with its clock: Date.now(), the start times,
            \* the durations and the progressData last handed out
  server    \* the server handlers: the requests in the auth middleware, the
            \* refresh calls the backend received, the logout handler

vars == <<opts, data, error, pending, calls, auth, meter, server>>

NoRequest == [path |-> <<>>, method |-> "", body |-> None]

\* The locals of one execute call.
\*   pc       where the coroutine is suspended: "idle" (not invoked),
\*            "single" (await $fetch), "all" / "wave" / "chunk" (await
\*            Promise.all at lines 241 / 297 / 344), "return" (await
\*            processBatch about to resume), "done" (promise settled)
\*   req      per item position: "idle", "inflight", or the outcome
\*   batch    the item positions handed to the pending Promise.all
\*   rejected the first rejection the pending Promise.all has seen
\*   snaps    the BatchProgress objects handed to the progress callback
\*   handled  the reports handleError made
\*   ret      the value execute's promise resolved with
IdleCall ==
  [pc |-> "idle", eo |-> NoOptions, kind |-> "none", mode |-> "none",
   items |-> <<>>, bs |-> None, conc |-> None, prog |-> "none",
   chunks |-> <<>>, currentBatch |-> 0, chunkIndex |-> 0, i |-> 0,
   batch |-> <<>>, baseIndex |-> 0,
   req |-> <<>>, request |-> <<>>, sent |-> <<>>,
   completed |-> 0, failed |-> 0, progressResults |-> <<>>, results |-> <<>>,
   rejected |-> None, snaps |-> <<>>, handled |-> <<>>,
   ret |-> None, snapsAtSettle |-> 0]

\* useEnfyraAuth before any call: me and isLoading as declared, the refs of
\* the /me, /login and /logout facades as useEnfyraApi creates them.
\*   pc        "idle", or the await the running function is suspended at:
\*             "login" (executeLogin), "loginFetch" (fetchUser called by
\*             login), "fetchUser" (executeFetchUser), "logout"
\*   response  the local `response` of login
\*   ret       the function that resolved last and the value it resolved with
\*   reloaded  window.location.reload() has been called
\*   inflight  "none", or the await an earlier login or fetchUser call is
\*             still suspended at while a later logout runs
IdleAuth ==
  [pc |-> "idle", me |-> Null, isLoading |-> FALSE,
   meData |-> Null, fetchUserError |-> Null, loginError |-> Null,
   logoutError |-> Null, response |-> None, ret |-> None, reloaded |-> FALSE,
   inflight |-> "none"]

\* processBatch before it is called.
\*   now        Date.now()
\*   itemStart  itemStartTime of each item wrapper
\*   settled    the items whose wrapper has resumed
\*   durations  the duration each settled wrapper recorded, in settle order
\*   snap       the progressData last handed to the progress callback
IdleMeter ==
  [pc |-> "idle", total |-> 0, completed |-> 0, now |-> 0, startTime |-> 0,
   itemStart |-> <<>>, settled |-> {}, durations |-> <<>>, snap |-> None]

\* The requests the auth middleware handles.
Reqs == {"r1", "r2"}

NoCookies == [accessToken |-> None, refreshToken |-> None, expTime |-> None]

\* One request in the auth middleware.
\*   pc                  "idle", "refreshing" (await refreshAccessToken), "done"
\*   cookies             the cookies the request carries
\*   currentAccessToken  the local of the handler
\*   authorization       event.context.proxyHeaders.authorization
\*   now                 Date.now() when the handler ran
\*   refreshed           how refreshAccessToken ended, if it was called
\*   setCookie           the cookies refreshAccessToken set on the response
\*   threw               the handler rejected
IdleReq ==
  [pc |-> "idle", url |-> "", cookies |-> NoCookies, now |-> 0,
   currentAccessToken |-> None, authorization |-> None,
   refreshed |-> None, setCookie |-> None, threw |-> FALSE]

\* The logout handler before it is called.
\*   pc            "idle", "awaiting" (the backend logout call), "done"
\*   refreshToken  the refresh cookie read before the call
\*   backend  how the backend logout call ended
\*   deleted  the cookies deleted on the response
\*   result   what the handler returned
\*   threw    the handler rejected
IdleLogout ==
  [pc |-> "idle", refreshToken |-> None, backend |-> None, deleted |-> {},
   result |-> None, threw |-> FALSE]

\* The server side before any request: no request handled, no call received
\* by the backend.
IdleServer ==
  [req |-> [r \in Reqs |-> IdleReq], refreshCalls |-> <<>>,
   logout |-> IdleLogout]

Init ==
  /\ opts \in FacadeOptions
  /\ data = Null
  /\ error = Null
  /\ pending = FALSE
  /\ calls = [c \in Calls |-> IdleCall]
  /\ auth = IdleAuth
  /\ meter = IdleMeter
  /\ server = IdleServer

(* ------------------------------------------------------------------ *)
(* execute: the batch decision and the effective batch options        *)
(* ------------------------------------------------------------------ *)
\* Variant of IsBatchOperation: disableBatch is not consulted.
IsBatchOperationAlways(o, eo) ==
  \/ /\ IsSome(eo.ids)
     /\ Len(Get(eo.ids)) > 0
     /\ ToLowerCase(o.method) \in {"patch", "delete"}
  \/ /\ ToLowerCase(o.method) = "post"
     /\ IsSome(eo.files)
     /\ Len(Get(eo.files)) > 0

\* Variant of IsBatchOperation: the method is compared as written.
IsBatchOperationCaseSensitive(o, eo) ==
  /\ ~o.disableBatch
  /\ \/ /\ IsSome(eo.ids)
        /\ Len(Get(eo.ids)) > 0
        /\ o.method \in {"patch", "delete"}
     \/ /\ o.method = "post"
        /\ IsSome(eo.files)
        /\ Len(Get(eo.files)) > 0

IsBatchOperation(o, eo) ==
  /\ ~o.disableBatch
  /\ \/ /\ IsSome(eo.ids)
        /\ Len(Get(eo.ids)) > 0
        /\ ToLowerCase(o.method) \in {"patch", "delete"}
     \/ /\ ToLowerCase(o.method) = "post"
        /\ IsSome(eo.files)
        /\ Len(Get(eo.files)) > 0

EffectiveBatchSize(o, eo) ==
  IF IsBatchOperation(o, eo) THEN Coalesce(eo.batchSize, o.batchSize) ELSE None

EffectiveConcurrent(o, eo) ==
  IF IsBatchOperation(o, eo) THEN Coalesce(eo.concurrent, o.concurrent) ELSE None

\* Which progress callback the call reports to: the one passed to execute,
\* else the one bound at creation, else none.
EffectiveOnProgress(o, eo) ==
  IF ~IsBatchOperation(o, eo) THEN "none"
  ELSE IF eo.onProgress THEN "execute"
  ELSE IF o.onProgress THEN "facade"
  ELSE "none"

\* segments.filter(Boolean).join("/"), kept as the list of joined segments
BuildPath(segments) == SelectSeq(segments, Boolean)

\* The request the processor of the ids batch sends for one id.
IdRequest(o, id) ==
  [path |-> BuildPath(<<BasePath, id>>), method |-> o.method, body |-> None]

\* The request the processor of the files batch sends for one file.
FileRequest(o, fileObj) ==
  [path |-> <<BasePath>>, method |-> o.method, body |-> Some(fileObj)]

\* The request of a single-item call.
SingleRequest(o, eo) ==
  [path |-> IF IsSome(eo.id) /\ Boolean(Get(eo.id))
            THEN BuildPath(<<BasePath, Get(eo.id)>>)
            ELSE <<BasePath>>,
   method |-> o.method,
   body |-> None]

Processor(o, kind, item) ==
  IF kind = "ids" THEN IdRequest(o, item) ELSE FileRequest(o, item)

(* ------------------------------------------------------------------ *)
(* $fetch and handleError                                             *)
(* ------------------------------------------------------------------ *)
\* What $fetch resolves with.
Response(rq) == [tag |-> "resp", of |-> rq]

\* What $fetch throws: for a non-2xx answer the object
\* { response: { data: errorData } }, for a transport failure the Error
\* that fetch raised.
Thrown(rq, outcome) ==
  IF outcome = "http"
  THEN [message |-> None, status |-> None, data |-> None,
        response |-> Some([status |-> None, data |-> Some(<<"body", rq>>)]),
        of |-> rq]
  ELSE [message |-> Some("fetch failed"), status |-> None, data |-> None,
        response |-> None, of |-> rq]

\* a || b on optional values none of which is falsy when present
OrElse(a, b) == IF a # None THEN a ELSE b

\* The ApiError handleError builds.
ApiError(err) ==
  [tag |-> "error",
   message |-> OrElse(err.message, Some("Request failed")),
   status |-> OrElse(err.status,
                     IF IsSome(err.response) THEN Get(err.response).status
                     ELSE None),
   data |-> OrElse(err.data,
                   IF IsSome(err.response) THEN Get(err.response).data
                   ELSE None),
   response |-> IF IsSome(err.response) THEN Get(err.response) ELSE err]

\* handleError reports to the custom handler when there is one, else to the
\* console.
HandleError(st, o, err) ==
  [st EXCEPT !.handled =
     Append(@, [via |-> IF o.onError THEN "onError" ELSE "console",
                error |-> ApiError(err)])]

(* ------------------------------------------------------------------ *)
(* processBatch                                                       *)
(* ------------------------------------------------------------------ *)
\* chunks, as lists of item positions (0-based)
Chunks(n, bs) ==
  IF Truthy(bs)
  THEN [k \in 1..ArrayLength(Ceil(n, Get(bs))) |->
          SliceIdx(n, (k - 1) * Get(bs), (k - 1) * Get(bs) + Get(bs))]
  ELSE <<SliceIdx(n, 0, n)>>

\* The BatchProgress object updateProgress builds.
BatchProgress(st, inProgress) ==
  [to |-> st.prog,
   progress |-> IF Len(st.items) > 0
                THEN Round100(st.completed, Len(st.items))
                ELSE 0,
   completed |-> st.completed,
   total |-> Len(st.items),
   failed |-> st.failed,
   inProgress |-> inProgress,
   currentBatch |-> st.currentBatch + 1,
   totalBatches |-> Len(st.chunks),
   results |-> st.progressResults]

\* Variant of UpdateProgress: results is the outcome log itself, not a copy,
\* so every snapshot handed out earlier shows the log as it is now.
UpdateProgressAliased(st, inProgress) ==
  IF st.prog # "none"
  THEN [st EXCEPT !.snaps =
          Append([k \in 1..Len(@) |->
                    [@[k] EXCEPT !.results = st.progressResults]],
                 BatchProgress(st, inProgress))]
  ELSE st

UpdateProgress(st, inProgress) ==
  IF st.prog # "none"
  THEN [st EXCEPT !.snaps = Append(@, BatchProgress(st, inProgress))]
  ELSE st

\* items.map(async ...) up to the await of each processor call: the requests
\* of the positions in batch are sent, in order.
LaunchAll(st, o, batch) ==
  LET rq(p) == Processor(o, st.kind, st.items[p + 1])
      InBatch(p) == \E j \in 1..Len(batch) : batch[j] = p
  IN [st EXCEPT
        !.batch = batch,
        !.rejected = None,
        !.req = [q \in 1..Len(st.items) |->
                   IF InBatch(q - 1) THEN "inflight" ELSE @[q]],
        !.request = [q \in 1..Len(st.items) |->
                       IF InBatch(q - 1) THEN rq(q - 1) ELSE @[q]],
        !.sent = @ \o [j \in 1..Len(batch) |-> rq(batch[j])]]

\* effectiveBatchSize || items.length
BatchSizeOrLength(st) == IF Truthy(st.bs) THEN Get(st.bs) ELSE Len(st.items)

\* Variant of LoopChunk: the concurrency limit is not consulted, every chunk
\* is launched whole.
LoopChunkWhole(st, o, k) ==
  IF k < Len(st.chunks)
  THEN LET chunk == st.chunks[k + 1]
           st2 == [st EXCEPT !.chunkIndex = k, !.currentBatch = k,
                             !.baseIndex = k * BatchSizeOrLength(st),
                             !.mode = "chunk", !.pc = "chunk"]
       IN LaunchAll(UpdateProgress(st2, Len(chunk)), o, chunk)
  ELSE [UpdateProgress([st EXCEPT !.chunkIndex = k], 0) EXCEPT !.pc = "return"]

RECURSIVE LoopChunk(_, _, _)

RECURSIVE LoopWave(_, _, _)

\* for (chunkIndex ...) entered with chunkIndex = k, run up to the next await:
\* either a wave or a whole chunk is launched, or the loop is over and
\* processBatch reports updateProgress(0) and returns results.
LoopChunk(st, o, k) ==
  IF k < Len(st.chunks)
  THEN LET chunk == st.chunks[k + 1]
           st1 == [st EXCEPT !.chunkIndex = k, !.currentBatch = k]
       IN IF Truthy(st.conc) /\ Len(chunk) > Get(st.conc)
          THEN LoopWave(st1, o, 0)
          ELSE LET st2 == [st1 EXCEPT !.baseIndex = k * BatchSizeOrLength(st),
                                      !.mode = "chunk", !.pc = "chunk"]
               IN LaunchAll(UpdateProgress(st2, Len(chunk)), o, chunk)
  ELSE [UpdateProgress([st EXCEPT !.chunkIndex = k], 0) EXCEPT !.pc = "return"]

\* for (i ...) of the current chunk entered with i, run up to the next await.
LoopWave(st, o, i) ==
  LET chunk == st.chunks[st.chunkIndex + 1]
  IN IF i < Len(chunk)
     THEN LET batch == Slice(chunk, i, i + Get(st.conc))
              st1 == [st EXCEPT
                        !.i = i,
                        !.baseIndex = st.chunkIndex * BatchSizeOrLength(st) + i,
                        !.mode = "wave", !.pc = "wave"]
          IN LaunchAll(UpdateProgress(st1, Len(batch)), o, batch)
     ELSE LoopChunk(st, o, st.chunkIndex + 1)

\* processBatch from its first line up to its first await.
StartBatch(st, o) ==
  LET n == Len(st.items)
      st0 == UpdateProgress([st EXCEPT !.chunks = Chunks(n, st.bs)], 0)
  IN IF ~Truthy(st.bs) /\ ~Truthy(st.conc)
     THEN LaunchAll(UpdateProgress([st0 EXCEPT !.mode = "all", !.pc = "all"], n),
                    o, SliceIdx(n, 0, n))
     ELSE LoopChunk(st0, o, 0)

\* 1-based place of item position p in the list handed to Promise.all
PlaceInBatch(st, p) == CHOOSE j \in 1..Len(st.batch) : st.batch[j] = p

\* Variant of GlobalIndex: the index within the wave or chunk, without
\* baseIndex.
GlobalIndexLocal(st, p) ==
  IF st.mode = "all" THEN p ELSE PlaceInBatch(st, p) - 1

\* The index the wrapper of position p logs: `index` of items.map on the
\* unbounded path, baseIndex + batchItemIndex in waves and chunks.
GlobalIndex(st, p) ==
  IF st.mode = "all" THEN p ELSE st.baseIndex + (PlaceInBatch(st, p) - 1)

\* The inProgress argument the wrapper of position p passes to
\* updateProgress once st.completed has been incremented.
InProgressAfter(st, p) ==
  IF st.mode = "all"
  THEN Len(st.items) - st.completed
  ELSE Max(0, Len(st.batch) - PlaceInBatch(st, p))

\* Variant of OnFulfilled: a success is logged but not reported.
OnFulfilledSilent(st, p) ==
  [st EXCEPT
     !.completed = @ + 1,
     !.progressResults =
        Append(@, [index |-> GlobalIndex(st, p),
                   status |-> "completed",
                   result |-> Some(Response(st.request[p + 1])),
                   error |-> None]),
     !.req[p + 1] = "ok"]

\* Variant of OnFulfilled: progress is reported before the outcome is logged.
OnFulfilledReportsFirst(st, p) ==
  LET st1 == UpdateProgress([st EXCEPT !.completed = @ + 1],
                            InProgressAfter([st EXCEPT !.completed = @ + 1], p))
  IN [st1 EXCEPT
        !.progressResults =
           Append(@, [index |-> GlobalIndex(st, p),
                      status |-> "completed",
                      result |-> Some(Response(st.request[p + 1])),
                      error |-> None]),
        !.req[p + 1] = "ok"]

\* The try branch of an item wrapper: its request resolved.
OnFulfilled(st, p) ==
  LET st1 == [st EXCEPT
                !.completed = @ + 1,
                !.progressResults =
                   Append(@, [index |-> GlobalIndex(st, p),
                              status |-> "completed",
                              result |-> Some(Response(st.request[p + 1])),
                              error |-> None]),
                !.req[p + 1] = "ok"]
  IN UpdateProgress(st1, InProgressAfter(st1, p))

\* Variant of OnRejected: a failure is taken off the completed count.
OnRejectedUncounted(st, p, outcome) ==
  LET err == Thrown(st.request[p + 1], outcome)
      st1 == [st EXCEPT
                !.failed = @ + 1,
                !.completed = @ - 1,
                !.progressResults =
                   Append(@, [index |-> GlobalIndex(st, p),
                              status |-> "failed",
                              result |-> None,
                              error |-> Some(err)]),
                !.req[p + 1] = outcome,
                !.rejected = IF st.pc \in {"all", "wave", "chunk"} /\ @ = None
                             THEN Some(err) ELSE @]
  IN UpdateProgress(st1, InProgressAfter(st1, p))

\* The catch branch of an item wrapper: its request threw; the wrapper
\* rethrows, which rejects the Promise.all it belongs to if execute still
\* awaits it.
OnRejected(st, p, outcome) ==
  LET err == Thrown(st.request[p + 1], outcome)
      st1 == [st EXCEPT
                !.failed = @ + 1,
                !.completed = @ + 1,
                !.progressResults =
                   Append(@, [index |-> GlobalIndex(st, p),
                              status |-> "failed",
                              result |-> None,
                              error |-> Some(err)]),
                !.req[p + 1] = outcome,
                !.rejected = IF st.pc \in {"all", "wave", "chunk"} /\ @ = None
                             THEN Some(err) ELSE @]
  IN UpdateProgress(st1, InProgressAfter(st1, p))

\* Variant of PromiseAll: the values in the order the promises were fulfilled.
PromiseAllCompletionOrder(st) ==
  [j \in 1..Len(st.batch) |->
     Get(st.progressResults[Len(st.progressResults) - Len(st.batch) + j].result)]

\* What the pending Promise.all resolves with: the values of its promises
\* by position in the list.
PromiseAll(st) ==
  [j \in 1..Len(st.batch) |-> Response(st.request[st.batch[j] + 1])]

\* Variant of AllFulfilled: one fulfilled promise is enough.
AnyFulfilled(st) == \E j \in 1..Len(st.batch) : st.req[st.batch[j] + 1] = "ok"

AllFulfilled(st) == \A j \in 1..Len(st.batch) : st.req[st.batch[j] + 1] = "ok"

InFlight(st) == {p \in 0..(Len(st.req) - 1) : st.req[p + 1] = "inflight"}

Launched(st) == {p \in 0..(Len(st.req) - 1) : st.req[p + 1] # "idle"}

(* ------------------------------------------------------------------ *)
(* execute                                                            *)
(* ------------------------------------------------------------------ *)
\* The locals of a call right after the batch decision (lines 106-144).
Invoked(o, eo) ==
  LET batchOp == IsBatchOperation(o, eo)
      byIds == batchOp /\ IsSome(eo.ids) /\ Len(Get(eo.ids)) > 0
      byFiles == batchOp /\ ~byIds /\ IsSome(eo.files) /\ Len(Get(eo.files)) > 0
      items == IF byIds THEN Get(eo.ids)
               ELSE IF byFiles THEN Get(eo.files)
               ELSE <<>>
      n == IF byIds \/ byFiles THEN Len(items) ELSE 1
  IN [IdleCall EXCEPT
        !.eo = eo,
        !.kind = IF byIds THEN "ids" ELSE IF byFiles THEN "files" ELSE "single",
        !.items = items,
        !.bs = EffectiveBatchSize(o, eo),
        !.conc = EffectiveConcurrent(o, eo),
        !.prog = EffectiveOnProgress(o, eo),
        !.req = [q \in 1..n |-> "idle"],
        !.request = [q \in 1..n |-> NoRequest]]

\* The single-item path up to await $fetch (lines 395-405).
StartSingle(st, o) ==
  [st EXCEPT
     !.pc = "single",
     !.req = <<"inflight">>,
     !.request = <<SingleRequest(o, st.eo)>>,
     !.sent = <<SingleRequest(o, st.eo)>>]

\* Variant of Execute: data is reset when the call starts.
ExecuteClearsData(c, eo) ==
  /\ calls[c].pc = "idle"
  /\ pending' = TRUE
  /\ error' = Null
  /\ data' = Null
  /\ calls' = [calls EXCEPT ![c] =
                 LET st == Invoked(opts, eo)
                 IN IF st.kind = "single"
                    THEN StartSingle(st, opts)
                    ELSE StartBatch(st, opts)]
  /\ UNCHANGED <<opts, auth, meter, server>>

\* execute(executeOpts) from its first line up to its first await.
Execute(c, eo) ==
  /\ calls[c].pc = "idle"
  /\ pending' = TRUE
  /\ error' = Null
  /\ calls' = [calls EXCEPT ![c] =
                 LET st == Invoked(opts, eo)
                 IN IF st.kind = "single"
                    THEN StartSingle(st, opts)
                    ELSE StartBatch(st, opts)]
  /\ UNCHANGED <<opts, data, auth, meter, server>>

\* try block completed: data.value = value; return value; finally.
Resolved(st, value) ==
  [st EXCEPT !.pc = "done", !.ret = Some(value), !.snapsAtSettle = Len(st.snaps)]

\* Variant of Caught: execute returns the error instead of null.
CaughtReturnsError(st, o, err) ==
  [HandleError(st, o, err) EXCEPT
     !.pc = "done", !.ret = Some(ApiError(err)), !.snapsAtSettle = Len(st.snaps)]

\* catch (err): handleError, error.value = apiError, return null; finally.
Caught(st, o, err) ==
  [HandleError(st, o, err) EXCEPT
     !.pc = "done", !.ret = Some(Null), !.snapsAtSettle = Len(st.snaps)]

\* The request of a single-item call settles and execute resumes.
SettleSingle(c, outcome) ==
  LET st == calls[c]
  IN /\ st.pc = "single"
     /\ st.req[1] = "inflight"
     /\ IF outcome = "ok"
        THEN /\ data' = Response(st.request[1])
             /\ calls' = [calls EXCEPT ![c] =
                            Resolved([st EXCEPT !.req[1] = "ok"],
                                     Response(st.request[1]))]
             /\ UNCHANGED error
        ELSE /\ error' = ApiError(Thrown(st.request[1], outcome))
             /\ calls' = [calls EXCEPT ![c] =
                            Caught([st EXCEPT !.req[1] = outcome], opts,
                                   Thrown(st.request[1], outcome))]
             /\ UNCHANGED data
     /\ pending' = FALSE
     /\ UNCHANGED <<opts, auth, meter, server>>

\* Variant of SettleItem: the completed counter is one variable shared by
\* all calls.
SettleItemSharedCounter(c, p, outcome) ==
  LET st == calls[c]
  IN /\ st.kind \in {"ids", "files"}
     /\ p \in InFlight(st)
     /\ calls' = [d \in Calls |->
                    IF d = c
                    THEN IF outcome = "ok" THEN OnFulfilled(st, p)
                         ELSE OnRejected(st, p, outcome)
                    ELSE [calls[d] EXCEPT !.completed = @ + 1]]
     /\ UNCHANGED <<opts, data, error, pending, auth, meter, server>>

\* The request of one batch item settles and its wrapper resumes.  This also
\* happens to requests still in flight after execute has settled.
SettleItem(c, p, outcome) ==
  LET st == calls[c]
  IN /\ st.kind \in {"ids", "files"}
     /\ p \in InFlight(st)
     /\ calls' = [calls EXCEPT ![c] =
                    IF outcome = "ok" THEN OnFulfilled(st, p)
                    ELSE OnRejected(st, p, outcome)]
     /\ UNCHANGED <<opts, data, error, pending, auth, meter, server>>

\* i += effectiveConcurrent.  With a negative step i only decreases: it
\* stays below chunk.length and chunk.slice(i, i + effectiveConcurrent) is
\* empty for every negative i, so the values below -MaxSpin are folded back
\* to -1.  (A call that reports progress is followed for MaxSpin empty waves
\* only, see ResumeBatch: each wave adds a report.)
NextWaveStart(st) ==
  LET j == st.i + Get(st.conc)
  IN IF j < -MaxSpin THEN -1 ELSE j

\* Promise.all of the awaited wave or chunk is fulfilled: processBatch
\* collects the values and runs on to the next await.
ResumeBatch(c) ==
  LET st == calls[c]
  IN /\ st.pc \in {"all", "wave", "chunk"}
     /\ st.rejected = None
     /\ AllFulfilled(st)
     /\ (st.prog = "none" \/ st.i > -MaxSpin)
     /\ calls' = [calls EXCEPT ![c] =
          IF st.pc = "all"
          THEN [UpdateProgress(st, 0) EXCEPT !.results = PromiseAll(st),
                                             !.pc = "return"]
          ELSE LET st1 == [st EXCEPT !.results = @ \o PromiseAll(st)]
               IN IF st.pc = "wave"
                  THEN LoopWave(st1, opts, NextWaveStart(st))
                  ELSE LoopChunk(st1, opts, st.chunkIndex + 1)]
     /\ UNCHANGED <<opts, data, error, pending, auth, meter, server>>

\* Variant of RejectBatch: no finally block, pending is left as it is.
RejectBatchNoFinally(c) ==
  LET st == calls[c]
  IN /\ st.pc \in {"all", "wave", "chunk"}
     /\ st.rejected # None
     /\ error' = ApiError(Get(st.rejected))
     /\ calls' = [calls EXCEPT ![c] = Caught(st, opts, Get(st.rejected))]
     /\ UNCHANGED <<opts, data, pending, auth, meter, server>>

\* Promise.all of the awaited wave or chunk is rejected: the rejection
\* leaves processBatch and lands in the catch block of execute.
RejectBatch(c) ==
  LET st == calls[c]
  IN /\ st.pc \in {"all", "wave", "chunk"}
     /\ st.rejected # None
     /\ error' = ApiError(Get(st.rejected))
     /\ pending' = FALSE
     /\ calls' = [calls EXCEPT ![c] = Caught(st, opts, Get(st.rejected))]
     /\ UNCHANGED <<opts, data, auth, meter, server>>

\* Variant of ReturnBatch: a result already in data is kept.
ReturnBatchFirstWins(c) ==
  LET st == calls[c]
      responses == [tag |-> "array", many |-> st.results]
  IN /\ st.pc = "return"
     /\ data' = (IF data = Null THEN responses ELSE data)
     /\ pending' = FALSE
     /\ calls' = [calls EXCEPT ![c] = Resolved(st, responses)]
     /\ UNCHANGED <<opts, error, auth, meter, server>>

\* await processBatch(...) resumes with the responses (lines 368-369 and
\* 391-392).
ReturnBatch(c) ==
  LET st == calls[c]
      responses == [tag |-> "array", many |-> st.results]
  IN /\ st.pc = "return"
     /\ data' = responses
     /\ pending' = FALSE
     /\ calls' = [calls EXCEPT ![c] = Resolved(st, responses)]
     /\ UNCHANGED <<opts, error, auth, meter, server>>

\* The caller invokes execute on the facade with some options.
Invoke(c) ==
  /\ calls[c].pc = "idle"
  /\ \E eo \in ExecuteOptionsFor(opts) : Execute(c, eo)

Next ==
  \/ Invoke("a")
  \/ \E outcome \in Outcomes : SettleSingle("a", outcome)
  \/ \E p \in 0..(MaxItems - 1), outcome \in Outcomes : SettleItem("a", p, outcome)
  \/ ResumeBatch("a")
  \/ RejectBatch("a")
  \/ ReturnBatch("a")

Spec == Init /\ [][Next]_vars

\* Every issued request eventually settles and every continuation that is
\* ready to run eventually runs.
Fairness ==
  /\ WF_vars(\E outcome \in Outcomes : SettleSingle("a", outcome))
  /\ \A p \in 0..(MaxItems - 1) :
        WF_vars(\E outcome \in Outcomes : SettleItem("a", p, outcome))
  /\ WF_vars(ResumeBatch("a"))
  /\ WF_vars(RejectBatch("a"))
  /\ WF_vars(ReturnBatch("a"))

SpecLive == Spec /\ Fairness

(* ------------------------------------------------------------------ *)
(* A progress callback that throws                                    *)
(* ------------------------------------------------------------------ *)
\* What the progress callback throws.
CallbackError ==
  [message |-> Some("onProgress failed"), status |-> None, data |-> None,
   response |-> None, of |-> NoRequest]

\* The wrapper of position p when its request resolved and the progress
\* callback throws from updateProgress in the try branch: the exception lands
\* in the catch branch of the same wrapper, which counts and logs a failure,
\* calls updateProgress again and rejects (with the callback's exception,
\* thrown again by the callback or rethrown by the wrapper).
OnFulfilledCallbackThrows(st, p) ==
  LET st1 == [st EXCEPT
                !.completed = @ + 1,
                !.progressResults =
                   Append(@, [index |-> GlobalIndex(st, p),
                              status |-> "completed",
                              result |-> Some(Response(st.request[p + 1])),
                              error |-> None]),
                !.req[p + 1] = "ok"]
      st2 == UpdateProgress(st1, InProgressAfter(st1, p))
      st3 == [st2 EXCEPT
                !.failed = @ + 1,
                !.completed = @ + 1,
                !.progressResults =
                   Append(@, [index |-> GlobalIndex(st, p),
                              status |-> "failed",
                              result |-> None,
                              error |-> Some(CallbackError)]),
                !.rejected = IF st.pc \in {"all", "wave", "chunk"} /\ @ = None
                             THEN Some(CallbackError) ELSE @]
  IN UpdateProgress(st3, InProgressAfter(st3, p))

\* The request of one batch item resolves and the progress callback throws
\* when it is told.
SettleItemCallbackThrows(c, p) ==
  LET st == calls[c]
  IN /\ st.kind \in {"ids", "files"}
     /\ st.prog # "none"
     /\ p \in InFlight(st)
     /\ calls' = [calls EXCEPT ![c] = OnFulfilledCallbackThrows(st, p)]
     /\ UNCHANGED <<opts, data, error, pending, auth, meter, server>>

NextThrowing ==
  \/ Invoke("a")
  \/ \E outcome \in Outcomes : SettleSingle("a", outcome)
  \/ \E p \in 0..(MaxItems - 1), outcome \in Outcomes : SettleItem("a", p, outcome)
  \/ \E p \in 0..(MaxItems - 1) : SettleItemCallbackThrows("a", p)
  \/ ResumeBatch("a")
  \/ RejectBatch("a")
  \/ ReturnBatch("a")

SpecThrowing == Init /\ [][NextThrowing]_vars

(* ------------------------------------------------------------------ *)
(* A sequence of execute calls on one facade, one after the other     *)
(* ------------------------------------------------------------------ *)
\* The execute options tried in a sequence of calls: execute(), execute({id})
\* and execute({ids}) with the batch options left to the facade.
SeqExecuteOptionsFor(o) ==
  {eo \in ExecuteOptionsFor(o) :
     /\ eo.files = None
     /\ eo.batchSize = None
     /\ eo.concurrent = None
     /\ eo.ids # None => (eo.id = None /\ Len(Get(eo.ids)) = SeqItems)}

\* The caller invokes execute once the promises of the earlier calls have
\* settled: await execute(...); await execute(...).
InvokeInTurn(c, earlier) ==
  /\ calls[c].pc = "idle"
  /\ \A d \in earlier : calls[d].pc = "done"
  /\ \E eo \in SeqExecuteOptionsFor(opts) : Execute(c, eo)

\* A facade created without callbacks (no onProgress, no onError).
InitSeq ==
  /\ Init
  /\ ~opts.onProgress
  /\ ~opts.onError

NextSeq ==
  \/ InvokeInTurn("a", {})
  \/ InvokeInTurn("b", {"a"})
  \/ \E c \in Calls, outcome \in Outcomes : SettleSingle(c, outcome)
  \/ \E c \in Calls, p \in 0..(SeqItems - 1), outcome \in Outcomes :
        SettleItem(c, p, outcome)
  \/ \E c \in Calls : ResumeBatch(c)
  \/ \E c \in Calls : RejectBatch(c)
  \/ \E c \in Calls : ReturnBatch(c)

SpecSeq == InitSeq /\ [][NextSeq]_vars

(* ------------------------------------------------------------------ *)
(* Two execute calls on one facade, the second not awaiting the first *)
(* ------------------------------------------------------------------ *)
\* The ids of the overlapping batch calls: [1 .. OverlapItems] for the first
\* call, the single next id for the second.
OverlapIds(c) ==
  IF c = "a" THEN IdList(OverlapItems) ELSE <<Num(OverlapItems + 1)>>

\* The execute options tried in overlapping calls: the first call is
\* execute() or execute({ids}), the second execute({id}) or execute({ids}).
OverlapExecuteOptionsFor(c, o) ==
  {eo \in [id : IF c = "a" THEN {None} ELSE {None, Some(Num(9))},
           ids : {None, Some(OverlapIds(c))},
           files : {None},
           batchSize : {None},
           concurrent : {None},
           onProgress : BOOLEAN] :
     /\ (eo.id = None) = (c = "a" \/ eo.ids # None)
     /\ \E cb \in Callbacks :
           o.onProgress = cb[1] /\ o.onError = cb[2] /\ eo.onProgress = cb[3]}

\* The caller invokes execute without awaiting the calls already started.
InvokeOverlapping(c, started) ==
  /\ calls[c].pc = "idle"
  /\ \A d \in started : calls[d].pc # "idle"
  /\ \E eo \in OverlapExecuteOptionsFor(c, opts) : Execute(c, eo)

\* A facade created without onError.
InitOverlap ==
  /\ Init
  /\ ~opts.onError

NextOverlap ==
  \/ InvokeOverlapping("a", {})
  \/ InvokeOverlapping("b", {"a"})
  \/ \E c \in Calls, outcome \in Outcomes : SettleSingle(c, outcome)
  \/ \E c \in Calls, p \in 0..(OverlapItems - 1), outcome \in Outcomes :
        SettleItem(c, p, outcome)
  \/ \E c \in Calls : ResumeBatch(c)
  \/ \E c \in Calls : RejectBatch(c)
  \/ \E c \in Calls : ReturnBatch(c)

SpecOverlap == InitOverlap /\ [][NextOverlap]_vars

(* ------------------------------------------------------------------ *)
(* Calls addressed by string and number identifiers                   *)
(* ------------------------------------------------------------------ *)
\* id: string | number, with the falsy ones.
Identifiers == {Num(0), Num(1), Str(""), Str("x")}

\* execute({id}) and execute({ids: [x, y]}) over the identifiers.
IdentifierExecuteOptionsFor(o) ==
  {eo \in [id : {None} \cup {Some(x) : x \in Identifiers},
           ids : {None} \cup {Some(<<x, y>>) : x, y \in Identifiers},
           files : {None},
           batchSize : {None},
           concurrent : {None},
           onProgress : BOOLEAN] :
     /\ (eo.id = None) # (eo.ids = None)
     /\ \E cb \in Callbacks :
           o.onProgress = cb[1] /\ o.onError = cb[2] /\ eo.onProgress = cb[3]}

\* The caller invokes execute with an id or an ids list.
InvokeWithIdentifiers(c) ==
  /\ calls[c].pc = "idle"
  /\ \E eo \in IdentifierExecuteOptionsFor(opts) : Execute(c, eo)

NextIdentifiers ==
  \/ InvokeWithIdentifiers("a")
  \/ \E outcome \in Outcomes : SettleSingle("a", outcome)
  \/ \E p \in 0..1, outcome \in Outcomes : SettleItem("a", p, outcome)
  \/ ResumeBatch("a")
  \/ RejectBatch("a")
  \/ ReturnBatch("a")

SpecIdentifiers == Init /\ [][NextIdentifiers]_vars

(* ------------------------------------------------------------------ *)
(* useEnfyraAuth: login, fetchUser, logout                            *)
(* ------------------------------------------------------------------ *)
User == [tag |-> "user"]

EmptyText == [tag |-> "text", s |-> ""]

\* What the /me endpoint can answer with: { data: [user] }, { data: [] },
\* an object without data, an empty text body.
MeResponses ==
  {[tag |-> "obj", data |-> Some(<<User>>)],
   [tag |-> "obj", data |-> Some(<<>>)],
   [tag |-> "obj", data |-> None],
   EmptyText}

\* What the /login endpoint can answer with: an object, an empty text body.
LoginResponses == {[tag |-> "obj", data |-> None], EmptyText}

\* JS truthiness of a response value, null or undefined.
JsTruthy(v) == v \notin {Null, Undefined, EmptyText}

\* v?.data?.[0]
FirstOfData(v) ==
  IF v.tag = "obj" /\ IsSome(v.data) /\ Len(Get(v.data)) > 0
  THEN Get(v.data)[1]
  ELSE Undefined

\* (meData.value as any)?.data?.[0] || meData.value || null
MeFrom(v) ==
  IF JsTruthy(FirstOfData(v)) THEN FirstOfData(v)
  ELSE IF JsTruthy(v) THEN v
  ELSE Null

\* isLoggedIn = computed(() => !!me.value)
IsLoggedIn == JsTruthy(auth.me)

\* The request an auth facade sends.
AuthRequest(method, path) ==
  [method |-> method, path |-> <<Str(path)>>, body |-> None]

\* login(payload) up to await executeLogin: isLoading, and execute's entry
\* (error.value = null).
Login ==
  /\ auth.pc = "idle"
  /\ auth' = [auth EXCEPT !.pc = "login", !.isLoading = TRUE,
                          !.loginError = Null, !.response = None,
                          !.ret = None, !.reloaded = FALSE]
  /\ UNCHANGED <<opts, data, error, pending, calls, meter, server>>

\* Variant of LoginSettles: a failed login clears me.
LoginSettlesClearsMe(outcome, r) ==
  /\ auth.pc = "login"
  /\ auth' =
       IF outcome = "ok"
       THEN [auth EXCEPT !.response = Some(r), !.pc = "loginFetch",
                         !.isLoading = TRUE, !.fetchUserError = Null]
       ELSE [auth EXCEPT
               !.loginError = ApiError(Thrown(AuthRequest("post", "login"), outcome)),
               !.response = Some(Null),
               !.me = Null,
               !.isLoading = FALSE,
               !.ret = Some([op |-> "login", value |-> Null]),
               !.pc = "idle"]
  /\ UNCHANGED <<opts, data, error, pending, calls, meter, server>>

\* executeLogin settles and login resumes: on an error it returns null, else
\* it calls fetchUser, which runs up to await executeFetchUser.
LoginSettles(outcome, r) ==
  /\ auth.pc = "login"
  /\ auth' =
       IF outcome = "ok"
       THEN [auth EXCEPT !.response = Some(r), !.pc = "loginFetch",
                         !.isLoading = TRUE, !.fetchUserError = Null]
       ELSE [auth EXCEPT
               !.loginError = ApiError(Thrown(AuthRequest("post", "login"), outcome)),
               !.response = Some(Null),
               !.isLoading = FALSE,
               !.ret = Some([op |-> "login", value |-> Null]),
               !.pc = "idle"]
  /\ UNCHANGED <<opts, data, error, pending, calls, meter, server>>

\* fetchUser() up to await executeFetchUser.
FetchUser ==
  /\ auth.pc = "idle"
  /\ auth' = [auth EXCEPT !.pc = "fetchUser", !.isLoading = TRUE,
                          !.fetchUserError = Null,
                          !.ret = None, !.reloaded = FALSE]
  /\ UNCHANGED <<opts, data, error, pending, calls, meter, server>>

\* executeFetchUser settles and fetchUser runs to its end; when login called
\* it, login resumes and returns its response.
FetchUserSettles(outcome, r) ==
  /\ auth.pc \in {"fetchUser", "loginFetch"}
  /\ auth' =
       LET a1 == IF outcome = "ok"
                 THEN [auth EXCEPT !.meData = r, !.me = MeFrom(r)]
                 ELSE [auth EXCEPT
                         !.fetchUserError =
                            ApiError(Thrown(AuthRequest("get", "me"), outcome)),
                         !.me = Null]
       IN [a1 EXCEPT
             !.isLoading = FALSE,
             !.pc = "idle",
             !.ret = IF auth.pc = "loginFetch"
                     THEN Some([op |-> "login", value |-> Get(auth.response)])
                     ELSE Some([op |-> "fetchUser", value |-> Undefined])]
  /\ UNCHANGED <<opts, data, error, pending, calls, meter, server>>

\* logout() up to await executeLogout.
Logout ==
  /\ auth.pc = "idle"
  /\ auth' = [auth EXCEPT !.pc = "logout", !.isLoading = TRUE,
                          !.logoutError = Null,
                          !.ret = None, !.reloaded = FALSE]
  /\ UNCHANGED <<opts, data, error, pending, calls, meter, server>>

\* Variant of LogoutSettles: me is cleared only when the request succeeded.
LogoutSettlesKeepsMeOnFailure(outcome, window) ==
  /\ auth.pc = "logout"
  /\ auth' = [auth EXCEPT
                !.logoutError =
                   IF outcome = "ok" THEN Null
                   ELSE ApiError(Thrown(AuthRequest("post", "logout"), outcome)),
                !.me = IF outcome = "ok" THEN Null ELSE @,
                !.reloaded = window,
                !.isLoading = FALSE,
                !.ret = Some([op |-> "logout", value |-> Undefined]),
                !.pc = "idle"]
  /\ UNCHANGED <<opts, data, error, pending, calls, meter, server>>

\* executeLogout settles (it never throws) and logout runs to its end:
\* me.value = null, reload where there is a window.
LogoutSettles(outcome, window) ==
  /\ auth.pc = "logout"
  /\ auth' = [auth EXCEPT
                !.logoutError =
                   IF outcome = "ok" THEN Null
                   ELSE ApiError(Thrown(AuthRequest("post", "logout"), outcome)),
                !.me = Null,
                !.reloaded = window,
                !.isLoading = FALSE,
                !.ret = Some([op |-> "logout", value |-> Undefined]),
                !.pc = "idle"]
  /\ UNCHANGED <<opts, data, error, pending, calls, meter, server>>

\* The facade of the model is the /login one: method post, nothing else set.
InitAuth ==
  /\ Init
  /\ opts = [method |-> "post", disableBatch |-> FALSE, batchSize |-> None,
             concurrent |-> None, onProgress |-> FALSE, onError |-> FALSE]

NextAuth ==
  \/ Login
  \/ \E outcome \in Outcomes, r \in LoginResponses : LoginSettles(outcome, r)
  \/ FetchUser
  \/ \E outcome \in Outcomes, r \in MeResponses : FetchUserSettles(outcome, r)
  \/ Logout
  \/ \E outcome \in Outcomes, window \in BOOLEAN : LogoutSettles(outcome, window)

SpecAuth == InitAuth /\ [][NextAuth]_vars

\* logout() is called while a login or fetchUser call is awaiting its
\* request; the earlier call stays in flight. logout runs up to
\* await executeLogout.
LogoutDuring ==
  /\ auth.pc \in {"login", "loginFetch", "fetchUser"}
  /\ auth.inflight = "none"
  /\ auth' = [auth EXCEPT !.inflight = auth.pc,
                          !.pc = "logout", !.isLoading = TRUE,
                          !.logoutError = Null,
                          !.ret = None, !.reloaded = FALSE]
  /\ UNCHANGED <<opts, data, error, pending, calls, meter, server>>

\* executeLogin of the login call in flight settles and login resumes. The
\* continuation is lost when the page has been reloaded.
InflightLoginSettles(outcome, r) ==
  /\ auth.inflight = "login"
  /\ ~auth.reloaded
  /\ auth' =
       IF outcome = "ok"
       THEN [auth EXCEPT !.response = Some(r), !.inflight = "loginFetch",
                         !.isLoading = TRUE, !.fetchUserError = Null]
       ELSE [auth EXCEPT
               !.loginError = ApiError(Thrown(AuthRequest("post", "login"), outcome)),
               !.response = Some(Null),
               !.isLoading = FALSE,
               !.inflight = "none"]
  /\ UNCHANGED <<opts, data, error, pending, calls, meter, server>>

\* executeFetchUser of the fetchUser call in flight settles and fetchUser
\* runs to its end. The continuation is lost when the page has been reloaded.
InflightFetchUserSettles(outcome, r) ==
  /\ auth.inflight \in {"fetchUser", "loginFetch"}
  /\ ~auth.reloaded
  /\ auth' =
       LET a1 == IF outcome = "ok"
                 THEN [auth EXCEPT !.meData = r, !.me = MeFrom(r)]
                 ELSE [auth EXCEPT
                         !.fetchUserError =
                            ApiError(Thrown(AuthRequest("get", "me"), outcome)),
                         !.me = Null]
       IN [a1 EXCEPT !.isLoading = FALSE, !.inflight = "none"]
  /\ UNCHANGED <<opts, data, error, pending, calls, meter, server>>

\* The auth functions, with a logout that may be called while an earlier
\* login or fetchUser is still awaiting its request.
NextAuthOverlap ==
  \/ NextAuth
  \/ LogoutDuring
  \/ \E outcome \in Outcomes, r \in LoginResponses :
       InflightLoginSettles(outcome, r)
  \/ \E outcome \in Outcomes, r \in MeResponses :
       InflightFetchUserSettles(outcome, r)

SpecAuthOverlap == InitAuth /\ [][NextAuthOverlap]_vars

(* ------------------------------------------------------------------ *)
(* processBatch with its clock: progress, elapsed, averageTime        *)
(* ------------------------------------------------------------------ *)
\* The progressData updateProgress builds: progress, completed, total,
\* elapsed and averageTime (elapsed / completed, kept as the pair
\* <<numerator, denominator>>; undefined while completed is 0).
ProgressData(m) ==
  LET elapsed == m.now - m.startTime
  IN [progress |-> IF m.total > 0 THEN Round100(m.completed, m.total) ELSE 0,
      completed |-> m.completed,
      total |-> m.total,
      elapsed |-> elapsed,
      averageTime |-> IF m.completed > 0
                      THEN Some(<<elapsed, m.completed>>)
                      ELSE None]

\* processBatch(items) without batchSize and concurrent, up to
\* await Promise.all: startTime, the two initial reports, every wrapper
\* started with its itemStartTime.
StartMeter(total) ==
  /\ meter.pc = "idle"
  /\ meter' =
       LET m == [meter EXCEPT !.pc = "all", !.total = total,
                              !.startTime = meter.now,
                              !.itemStart = [p \in 1..total |-> meter.now]]
       IN [m EXCEPT !.snap = Some(ProgressData(m))]
  /\ UNCHANGED <<opts, data, error, pending, calls, auth, server>>

\* The request of item p resolves and its wrapper resumes: duration,
\* completed++, the log entry, updateProgress.
MeterSettle(p) ==
  /\ meter.pc = "all"
  /\ p \in 1..meter.total
  /\ p \notin meter.settled
  /\ meter' =
       LET m == [meter EXCEPT
                   !.completed = @ + 1,
                   !.settled = @ \cup {p},
                   !.durations = Append(@, meter.now - meter.itemStart[p])]
       IN [m EXCEPT !.snap = Some(ProgressData(m))]
  /\ UNCHANGED <<opts, data, error, pending, calls, auth, server>>

\* Time passes.
Tick ==
  /\ meter.now < MaxClock
  /\ meter' = [meter EXCEPT !.now = @ + 1]
  /\ UNCHANGED <<opts, data, error, pending, calls, auth, server>>

\* The facade of the meter: method patch, a progress callback.
InitMeter ==
  /\ Init
  /\ opts = [method |-> "PATCH", disableBatch |-> FALSE, batchSize |-> None,
             concurrent |-> None, onProgress |-> TRUE, onError |-> TRUE]

\* Batches of up to MaxTotal items, their requests answered in index order.
NextProgress ==
  \/ \E total \in 1..MaxTotal : StartMeter(total)
  \/ MeterSettle(meter.completed + 1)

SpecProgress == InitMeter /\ [][NextProgress]_vars

\* Batches of up to MaxTimed items, their requests answered in any order
\* while time passes.
NextTiming ==
  \/ \E total \in 1..MaxTimed : StartMeter(total)
  \/ \E p \in 1..MaxTimed : MeterSettle(p)
  \/ Tick

SpecTiming == InitMeter /\ [][NextTiming]_vars

(* ------------------------------------------------------------------ *)
(* Server: the auth middleware, token refresh, the logout handler     *)
(* ------------------------------------------------------------------ *)
\* parseInt(expTime) is in seconds, Date.now() in milliseconds.
MsPerSecond == 1000

\* The urls of incoming requests: the two the middleware skips, one other.
Urls == {"/api/login", "/api/logout", "/api/users"}

\* The cookies a request can carry: each absent or present, the access
\* token possibly empty, the expiry empty, not a number, or a time in seconds.
RequestCookies ==
  [accessToken : {None, Some(""), Some("at0")},
   refreshToken : {None, Some("rt0")},
   expTime : {None, Some(""), Some("abc"), Some("1")}]

\* The values Date.now() takes: the expiry time "1" exactly, and just after.
Clock == {1000, 1001}

\* What the backend can answer a refresh call with: the new tokens, an
\* object without an access token, a null body.
RefreshResponses ==
  {[tag |-> "obj", accessToken |-> Some("at1"), refreshToken |-> Some("rt1"),
    expTime |-> Some("2")],
   [tag |-> "obj", accessToken |-> None, refreshToken |-> None,
    expTime |-> None],
   Null}

\* JS truthiness of a cookie value (string | undefined).
CookieTruthy(c) == IsSome(c) /\ Get(c) # ""

\* parseInt(text); None is NaN.
ParseInt(text) ==
  CASE text = "0" -> Some(0)
    [] text = "1" -> Some(1)
    [] text = "2" -> Some(2)
    [] OTHER -> None

\* expTime && Date.now() > parseInt(expTime) * 1000
IsTokenExpired(expTime, now) ==
  /\ CookieTruthy(expTime)
  /\ IsSome(ParseInt(Get(expTime)))
  /\ now > Get(ParseInt(Get(expTime))) * MsPerSecond

\* Variant of ValidateTokens: the expiry cookie is not consulted.
ValidateTokensIgnoresExpiry(cookies, now) ==
  IF CookieTruthy(cookies.accessToken)
  THEN [accessToken |-> cookies.accessToken, needsRefresh |-> FALSE]
  ELSE IF CookieTruthy(cookies.refreshToken)
  THEN [accessToken |-> None, needsRefresh |-> TRUE]
  ELSE [accessToken |-> None, needsRefresh |-> FALSE]

\* validateTokens(event)
ValidateTokens(cookies, now) ==
  LET isTokenExpired == IsTokenExpired(cookies.expTime, now)
  IN IF CookieTruthy(cookies.accessToken) /\ ~isTokenExpired
     THEN [accessToken |-> cookies.accessToken, needsRefresh |-> FALSE]
     ELSE IF /\ CookieTruthy(cookies.refreshToken)
             /\ (isTokenExpired \/ ~CookieTruthy(cookies.accessToken))
     THEN [accessToken |-> None, needsRefresh |-> TRUE]
     ELSE [accessToken |-> None, needsRefresh |-> FALSE]

\* `Bearer ${currentAccessToken}`
Bearer(token) == "Bearer " \o token

\* The end of the middleware: the authorization header is set when
\* currentAccessToken is truthy.
Authorize(q) ==
  [q EXCEPT !.authorization = IF CookieTruthy(q.currentAccessToken)
                              THEN Some(Bearer(Get(q.currentAccessToken)))
                              ELSE None,
            !.pc = "done"]

\* The middleware handles request r up to its end or to
\* await refreshAccessToken, whose backend call is sent at once.
Handle(r, url, cookies, now) ==
  /\ server.req[r].pc = "idle"
  /\ server' =
       LET q == [IdleReq EXCEPT !.url = url, !.cookies = cookies, !.now = now]
           v == ValidateTokens(cookies, now)
       IN IF url \in {"/api/login", "/api/logout"}
          THEN [server EXCEPT !.req[r] = [q EXCEPT !.pc = "done"]]
          ELSE IF v.needsRefresh /\ CookieTruthy(cookies.refreshToken)
          THEN [server EXCEPT
                  !.req[r] = [q EXCEPT !.pc = "refreshing"],
                  !.refreshCalls =
                     Append(@, [req |-> r,
                                refreshToken |-> Get(cookies.refreshToken)])]
          ELSE [server EXCEPT
                  !.req[r] = Authorize([q EXCEPT !.currentAccessToken =
                                                    v.accessToken])]
  /\ UNCHANGED <<opts, data, error, pending, calls, auth, meter>>

\* The refresh call of request r settles: refreshAccessToken sets the three
\* cookies and returns the new access token, or throws (a failed call, a
\* body that cannot be destructured), which the middleware catches.
RefreshSettles(r, outcome, response) ==
  /\ server.req[r].pc = "refreshing"
  /\ server' =
       LET q == server.req[r]
       IN IF outcome = "ok" /\ response # Null
          THEN [server EXCEPT !.req[r] =
                  Authorize([q EXCEPT
                     !.setCookie = Some([accessToken |-> response.accessToken,
                                         refreshToken |-> response.refreshToken,
                                         expTime |-> response.expTime]),
                     !.refreshed = Some([tag |-> "returned",
                                         accessToken |-> response.accessToken]),
                     !.currentAccessToken = response.accessToken])]
          ELSE [server EXCEPT !.req[r] =
                  Authorize([q EXCEPT
                     !.refreshed = Some([tag |-> "threw"]),
                     !.currentAccessToken = None])]
  /\ UNCHANGED <<opts, data, error, pending, calls, auth, meter>>

\* The cookies the logout handler deletes.
CookieKeys == {"ACCESS_TOKEN_KEY", "REFRESH_TOKEN_KEY", "EXP_TIME_KEY"}

\* What the handler returns when the backend call failed.
LocalCompletion == [success |-> FALSE, message |-> "Logout completed locally"]

\* What the backend can answer a logout call with.
LogoutResults == {[success |-> TRUE, message |-> "ok"], Null}

\* The logout handler up to await $fetch(`${apiUrl}/auth/logout`).
LogoutHandle(refreshToken) ==
  /\ server.logout.pc = "idle"
  /\ server' = [server EXCEPT
                  !.logout = [IdleLogout EXCEPT !.pc = "awaiting",
                                                !.refreshToken = refreshToken]]
  /\ UNCHANGED <<opts, data, error, pending, calls, auth, meter>>

\* Variant of LogoutBackendSettles: a failed backend call is rethrown.
LogoutBackendSettlesRethrows(outcome, result) ==
  /\ server.logout.pc = "awaiting"
  /\ server' = [server EXCEPT !.logout =
                  IF outcome = "ok"
                  THEN [@ EXCEPT !.pc = "done", !.backend = Some(outcome),
                                 !.deleted = CookieKeys,
                                 !.result = Some(result)]
                  ELSE [@ EXCEPT !.pc = "done", !.backend = Some(outcome),
                                 !.threw = TRUE]]
  /\ UNCHANGED <<opts, data, error, pending, calls, auth, meter>>

\* The backend logout call settles and the handler runs to its end: the
\* three cookies are deleted in the try block and in the catch block.
LogoutBackendSettles(outcome, result) ==
  /\ server.logout.pc = "awaiting"
  /\ server' = [server EXCEPT !.logout =
                  IF outcome = "ok"
                  THEN [@ EXCEPT !.pc = "done", !.backend = Some(outcome),
                                 !.deleted = CookieKeys,
                                 !.result = Some(result)]
                  ELSE [@ EXCEPT !.pc = "done", !.backend = Some(outcome),
                                 !.deleted = CookieKeys,
                                 !.result = Some(LocalCompletion)]]
  /\ UNCHANGED <<opts, data, error, pending, calls, auth, meter>>

\* The facade plays no part on the server side.
InitServer ==
  /\ Init
  /\ opts = [method |-> "post", disableBatch |-> FALSE, batchSize |-> None,
             concurrent |-> None, onProgress |-> FALSE, onError |-> FALSE]

\* Two requests pass the middleware, possibly at the same time, and the
\* logout handler is called once.
NextServer ==
  \/ \E r \in Reqs, url \in Urls, cookies \in RequestCookies, now \in Clock :
       Handle(r, url, cookies, now)
  \/ \E r \in Reqs, outcome \in Outcomes, response \in RefreshResponses :
       RefreshSettles(r, outcome, response)
  \/ \E refreshToken \in {None, Some("rt0")} : LogoutHandle(refreshToken)
  \/ \E outcome \in Outcomes, result \in LogoutResults :
       LogoutBackendSettles(outcome, result)

SpecServer == InitServer /\ [][NextServer]_vars

(* ------------------------------------------------------------------ *)
(* Properties                                                         *)
(* ------------------------------------------------------------------ *)
IsBatch(st) == st.kind \in {"ids", "files"}

\* A batchSize / concurrent value of the documented domain: unset or a
\* positive integer.
ValidSize(s) == s = None \/ Get(s) >= 1

ValidSizes(st) == ValidSize(st.bs) /\ ValidSize(st.conc)

Failures(st) == {p \in 0..(Len(st.req) - 1) : st.req[p + 1] \in {"http", "network"}}

\* The response of the request the call sends for the item at position p.
ResponseOfItem(st, p) == Response(Processor(opts, st.kind, st.items[p + 1]))

\* C1: when a batch call with valid batchSize / concurrent has settled and all
\* its requests succeeded, it resolved with an array of length N whose element
\* i is the response of item i, whatever the order the requests completed in.
C1_ResultsInSubmissionOrder ==
  LET st == calls["a"]
  IN (IsBatch(st) /\ st.pc = "done" /\ ValidSizes(st) /\ Failures(st) = {})
     => /\ IsSome(st.ret)
        /\ Get(st.ret).tag = "array"
        /\ Len(Get(st.ret).many) = Len(st.items)
        /\ \A p \in 0..(Len(st.items) - 1) :
             Get(st.ret).many[p + 1] = ResponseOfItem(st, p)

\* A batch of MaxItems items has resolved although the last item completed
\* first.
C1_Witness ==
  LET st == calls["a"]
  IN /\ IsBatch(st) /\ st.pc = "done" /\ ValidSizes(st) /\ Failures(st) = {}
     /\ Len(st.items) = MaxItems
     /\ st.progressResults[1].index = MaxItems - 1
     /\ Get(st.ret).tag = "array"

\* C2: a failing item does not stop the batch: once a batch call has settled
\* and none of its requests is in flight, every item has been launched and
\* the outcome log has exactly one entry for each index 0..N-1.
C2_EveryItemLaunchedAndLogged ==
  LET st == calls["a"]
  IN (IsBatch(st) /\ st.pc = "done" /\ ValidSizes(st) /\ InFlight(st) = {})
     => /\ Launched(st) = 0..(Len(st.items) - 1)
        /\ Len(st.progressResults) = Len(st.items)
        /\ \A x \in 0..(Len(st.items) - 1) :
             Cardinality({k \in 1..Len(st.progressResults) :
                            st.progressResults[k].index = x}) = 1

\* C3: a batch call some of whose requests failed resolves with an array of
\* length N holding the response of each succeeded item and undefined at each
\* failed index, data is that array, and error stays null.
C3_PartialFailureResolvesArray ==
  LET st == calls["a"]
      expected ==
        [tag |-> "array",
         many |-> [q \in 1..Len(st.items) |->
                     IF st.req[q] = "ok" THEN ResponseOfItem(st, q - 1)
                     ELSE Undefined]]
  IN (IsBatch(st) /\ st.pc = "done" /\ ValidSizes(st) /\ InFlight(st) = {}
        /\ Failures(st) # {})
     => /\ st.ret = Some(expected)
        /\ data = expected
        /\ error = Null

\* The chunk (0-based) that item position p belongs to for chunk size b >= 1.
ChunkOf(p, b) == p \div b

\* C4: with batchSize set, no request of a later chunk is launched before
\* every request of every earlier chunk has settled.
C4_ChunksSequential ==
  LET st == calls["a"]
  IN (IsBatch(st) /\ IsSome(st.bs) /\ Get(st.bs) >= 1)
     => \A p, q \in 0..(Len(st.items) - 1) :
          (ChunkOf(p, Get(st.bs)) < ChunkOf(q, Get(st.bs)) /\ st.req[q + 1] # "idle")
          => st.req[p + 1] \in Outcomes

\* A request of the second chunk is in flight.
C4_Witness ==
  LET st == calls["a"]
  IN /\ IsBatch(st) /\ IsSome(st.bs) /\ Get(st.bs) >= 1
     /\ \E q \in InFlight(st) : ChunkOf(q, Get(st.bs)) >= 1

\* C5: with concurrent = K >= 1, whatever batchSize is, at most K requests of
\* the call are launched and not yet settled.
C5_AtMostKInFlight ==
  LET st == calls["a"]
  IN (IsBatch(st) /\ IsSome(st.conc) /\ Get(st.conc) >= 1)
     => Cardinality(InFlight(st)) <= Get(st.conc)

\* A call with more items than its limit K has exactly K requests in flight
\* after an earlier wave has settled.
C5_Witness ==
  LET st == calls["a"]
  IN /\ IsBatch(st) /\ IsSome(st.conc) /\ Get(st.conc) >= 1
     /\ Len(st.items) > Get(st.conc)
     /\ st.completed > 0
     /\ Cardinality(InFlight(st)) = Get(st.conc)

C7_PendingWhileRunning ==
  LET st == calls["a"]
  IN /\ st.pc \in {"single", "all", "wave", "chunk", "return"} => pending
     /\ st.pc = "done" => ~pending

\* A batch call that was rejected by a failure in its second chunk has
\* settled.
C7_Witness ==
  LET st == calls["a"]
  IN /\ IsBatch(st) /\ st.pc = "done" /\ st.chunkIndex >= 1
     /\ Failures(st) # {} /\ ~pending

\* The batch condition as the documentation words it.
BatchCondition(o, eo) ==
  /\ o.disableBatch = FALSE
  /\ \/ (eo.ids # None /\ Get(eo.ids) # <<>>
          /\ o.method \in {"patch", "PATCH", "delete", "DELETE"})
     \/ (eo.files # None /\ Get(eo.files) # <<>>
          /\ o.method \in {"post", "POST"})

C9_NoLimboAfterSettle ==
  LET st == calls["a"]
  IN (IsBatch(st) /\ st.pc = "done" /\ ValidSizes(st))
     => /\ InFlight(st) = {}
        /\ Len(st.snaps) = st.snapsAtSettle

\* C10: the completed count never decreases from one delivered snapshot to
\* the next.
C10_CompletedMonotone ==
  LET st == calls["a"]
  IN \A k \in 1..(Len(st.snaps) - 1) :
       st.snaps[k].completed <= st.snaps[k + 1].completed

\* Snapshots were delivered for completions and for a failure.
C10_Witness ==
  LET st == calls["a"]
  IN /\ Len(st.snaps) >= 4
     /\ st.failed >= 1
     /\ st.snaps[Len(st.snaps)].completed >= 2

\* The places of the snapshots that report completed == total.
FullSnapshots(st) ==
  {k \in 1..Len(st.snaps) : st.snaps[k].completed = st.snaps[k].total}

AllSucceeded(st) == \A q \in 1..Len(st.req) : st.req[q] = "ok"

\* C11 as stated: once a batch call whose requests all succeeded has settled,
\* exactly one delivered snapshot has completed == total, and it is the last.
C11_TotalReachedExactlyOnce ==
  LET st == calls["a"]
  IN (IsBatch(st) /\ st.prog # "none" /\ st.pc = "done" /\ AllSucceeded(st))
     => /\ Cardinality(FullSnapshots(st)) = 1
        /\ FullSnapshots(st) = {Len(st.snaps)}

\* C11 amended: the snapshots with completed == total are the last ones
\* delivered, and once a batch call whose requests all succeeded has settled
\* there are exactly two of them: the one reported for the item that settled
\* last and the closing updateProgress(0).
C11_TotalReachedAtTheEndTwice ==
  LET st == calls["a"]
  IN /\ \A k \in 1..(Len(st.snaps) - 1) :
          k \in FullSnapshots(st) => (k + 1) \in FullSnapshots(st)
     /\ (IsBatch(st) /\ st.prog # "none" /\ st.pc = "done" /\ AllSucceeded(st))
        => FullSnapshots(st) = {Len(st.snaps) - 1, Len(st.snaps)}

\* A batch of MaxItems items with a progress callback has resolved.
C11_Witness ==
  LET st == calls["a"]
  IN /\ IsBatch(st) /\ st.prog # "none" /\ st.pc = "done" /\ AllSucceeded(st)
     /\ Len(st.items) = MaxItems
     /\ Len(st.chunks) > 1

\* C12: with a progress callback, every settled item has its outcome in a
\* snapshot that was delivered in the step in which it settled, hence before
\* any later wave or chunk is launched.
C12_SettledItemReported ==
  LET st == calls["a"]
  IN (IsBatch(st) /\ st.prog # "none")
     => \A p \in 0..(Len(st.req) - 1) :
          st.req[p + 1] \in Outcomes
          => \E k \in 1..Len(st.snaps) :
               \E e \in 1..Len(st.snaps[k].results) :
                  /\ st.snaps[k].results[e].index = p
                  /\ (st.snaps[k].results[e].status = "completed")
                       = (st.req[p + 1] = "ok")

\* The first item has settled and a request of a later wave or chunk is in
\* flight.
C12_Witness ==
  LET st == calls["a"]
  IN /\ IsBatch(st) /\ st.prog # "none"
     /\ st.req[1] = "ok"
     /\ InFlight(st) # {}
     /\ st.baseIndex > 0

\* C13: the inProgress of a snapshot is the number of requests of the call
\* that are launched and not settled when it is taken.  Stated for the
\* snapshots reported when a request succeeds, in calls without failures
\* whose batchSize / concurrent are unset or positive.
C13_InProgressIsInFlight ==
  [][LET st == calls["a"]
         nx == calls'["a"]
     IN (/\ IsBatch(st) /\ st.prog # "none" /\ ValidSizes(st)
         /\ nx.completed = st.completed + 1
         /\ Failures(nx) = {})
        => nx.snaps[Len(nx.snaps)].inProgress = Cardinality(InFlight(nx))]_vars

\* ceil(n / c) for n >= 1 and c >= 1: the least m with m * c >= n.
CeilOf(n, c) == CHOOSE m \in 1..n : m * c >= n /\ (m - 1) * c < n

\* C14: with batchSize C >= 1 the N items are split into ceil(N / C)
\* consecutive chunks, each of length C except possibly the last, and every
\* snapshot reports totalBatches = ceil(N / C); with batchSize unset there is
\* one chunk holding all items and totalBatches = 1.
C14_ChunkCount ==
  LET st == calls["a"]
      n == Len(st.items)
      m == IF st.bs = None THEN 1 ELSE CeilOf(n, Get(st.bs))
      c == IF st.bs = None THEN n ELSE Get(st.bs)
  IN (IsBatch(st) /\ (st.bs = None \/ Get(st.bs) >= 1))
     => /\ Len(st.chunks) = m
        /\ \A k \in 1..m :
             /\ Len(st.chunks[k]) = IF k < m THEN c ELSE n - (m - 1) * c
             /\ \A j \in 1..Len(st.chunks[k]) :
                  st.chunks[k][j] = (k - 1) * c + (j - 1)
        /\ \A k \in 1..Len(st.snaps) : st.snaps[k].totalBatches = m

\* MaxItems items are split by a batchSize that does not divide their number
\* and a snapshot was delivered.
C14_Witness ==
  LET st == calls["a"]
  IN /\ IsBatch(st) /\ st.bs # None /\ Get(st.bs) >= 2
     /\ Len(st.items) = MaxItems
     /\ Len(st.items) % Get(st.bs) # 0
     /\ Len(st.snaps) > 0

\* A batchSize / concurrent value that is zero or negative.
InvalidSize(s) == s # None /\ Get(s) <= 0

\* C15: a batch call whose effective batchSize or concurrent is zero or
\* negative is rejected before any work starts: it sends no request and
\* invokes no progress callback.
C15_InvalidSizeRejected ==
  LET st == calls["a"]
  IN (IsBatch(st) /\ (InvalidSize(st.bs) \/ InvalidSize(st.conc)))
     => /\ Len(st.sent) = 0
        /\ Len(st.snaps) = 0

\* C16: in batch mode with a custom onError handler, once every request has
\* settled the handler has been invoked exactly once per failed item, and
\* nothing went to the console.
C16_OnErrorOncePerFailedItem ==
  LET st == calls["a"]
  IN (IsBatch(st) /\ ValidSizes(st) /\ opts.onError
        /\ st.pc = "done" /\ InFlight(st) = {})
     => /\ Len(st.handled) = Cardinality(Failures(st))
        /\ \A k \in 1..Len(st.handled) : st.handled[k].via = "onError"

\* C17: a batch call uses the batchSize, concurrent and onProgress passed
\* to execute when given and otherwise the ones bound at creation; every
\* progress report of a call given its own onProgress goes to that callback,
\* and the chunks are cut with the chosen batchSize.
C17_ExecuteOptionsOverride ==
  LET st == calls["a"]
      eo == st.eo
      size == IF eo.batchSize # None THEN eo.batchSize ELSE opts.batchSize
  IN IsBatch(st)
     => /\ st.bs = size
        /\ st.conc = (IF eo.concurrent # None THEN eo.concurrent
                      ELSE opts.concurrent)
        /\ \A k \in 1..Len(st.snaps) :
              st.snaps[k].to = (IF eo.onProgress THEN "execute" ELSE "facade")
        /\ (~eo.onProgress /\ ~opts.onProgress) => Len(st.snaps) = 0
        /\ (size # None /\ Get(size) >= 1)
             => \A j \in 1..Len(st.chunks) : Len(st.chunks[j]) <= Get(size)

\* A call overriding a creation-time batchSize and onProgress has reported.
C17_Witness ==
  LET st == calls["a"]
  IN /\ IsBatch(st)
     /\ st.eo.batchSize = Some(1)
     /\ opts.batchSize = Some(MaxSize)
     /\ st.eo.onProgress /\ opts.onProgress
     /\ Len(st.items) >= 2
     /\ st.pc = "done"
     /\ AllSucceeded(st)
     /\ Len(st.snaps) > Len(st.items)

C18_WitnessExecuteLevel ==
  LET st == calls["a"]
  IN /\ st.pc = "done"
     /\ ~BatchCondition(opts, st.eo)
     /\ IsSome(st.eo.batchSize)
     /\ st.eo.onProgress

\* C19: execute with an empty ids or files list on a batch-capable method
\* sends no request and resolves with an empty result array.
C19_EmptyListResolvesEmpty ==
  LET st == calls["a"]
      eo == st.eo
      emptyIds == /\ ToLowerCase(opts.method) \in {"patch", "delete"}
                  /\ eo.ids = Some(<<>>)
      emptyFiles == /\ ToLowerCase(opts.method) = "post"
                    /\ eo.files = Some(<<>>)
  IN (st.pc # "idle" /\ ~opts.disableBatch /\ eo.id = None
        /\ (emptyIds \/ emptyFiles))
     => /\ Len(st.sent) = 0
        /\ st.pc = "done" => st.ret = Some([tag |-> "array", many |-> <<>>])

\* The promise of the call has settled with a failure / with a result.
Failed(st) == st.pc = "done" /\ Len(st.handled) > 0

Succeeded(st) == st.pc = "done" /\ Len(st.handled) = 0

\* C20: in a sequence of execute calls made one after the other, whenever no
\* call is running data is the result of the most recent successful call
\* (null if none) and error is non-null exactly when the most recent call
\* failed; while the later call runs, data is still what the earlier one left.
C20_DataIsLastSuccess ==
  LET a == calls["a"]
      b == calls["b"]
      afterA == IF Succeeded(a) THEN Get(a.ret) ELSE Null
  IN /\ (a.pc = "done" /\ b.pc = "idle")
          => /\ data = afterA
             /\ (error # Null) = Failed(a)
     /\ (a.pc = "done" /\ b.pc \notin {"idle", "done"})
          => data = afterA
     /\ b.pc = "done"
          => /\ data = (IF Succeeded(b) THEN Get(b.ret) ELSE afterA)
             /\ (error # Null) = Failed(b)
     /\ \A c \in Calls : Failed(calls[c]) = (calls[c].ret = Some(Null))

\* A successful call followed by a failed one has left the first result.
C20_Witness ==
  LET a == calls["a"]
      b == calls["b"]
  IN /\ Succeeded(a) /\ Failed(b)
     /\ IsBatch(a) /\ ~IsBatch(b)
     /\ data = Get(a.ret)
     /\ InFlight(b) = {}

\* A failed call followed by a successful one with a different result.
C20_WitnessRecovered ==
  LET a == calls["a"]
      b == calls["b"]
  IN /\ Failed(a) /\ Succeeded(b)
     /\ IsBatch(b)
     /\ InFlight(a) # {}

\* The call settles in this step.
Settles(c) == calls[c].pc # "done" /\ calls'[c].pc = "done"

\* C21: overlapping execute calls are not serialised.  data changes only in
\* the step where a call settles successfully, and then becomes that call's
\* result, so once both calls have settled data is the result of the
\* successful call that settled last, whichever was invoked last.
C21_LastSettledWins ==
  /\ [](LET a == calls["a"]
            b == calls["b"]
        IN (a.pc = "done" /\ b.pc = "done")
           => data \in ({Get(calls[c].ret) : c \in {d \in Calls : Succeeded(calls[d])}}
                        \cup {v \in {Null} : \A c \in Calls : Failed(calls[c])}))
  /\ [][/\ (\A c \in Calls :
               Settles(c) => (data' = (IF Succeeded(calls'[c])
                                       THEN Get(calls'[c].ret) ELSE data)))
         /\ ((\A c \in Calls : ~Settles(c)) => (data' = data))]_vars

\* Both calls succeeded with different results and data is the result of
\* the call invoked first: it settled after the call invoked second.
C21_Witness ==
  LET a == calls["a"]
      b == calls["b"]
  IN /\ Succeeded(a) /\ Succeeded(b)
     /\ Get(a.ret) # Get(b.ret)
     /\ data = Get(a.ret)
     /\ IsBatch(a) /\ IsBatch(b)

\* Requests of both calls are in flight at the same time.
C21_WitnessBothInFlight ==
  /\ InFlight(calls["a"]) # {}
  /\ InFlight(calls["b"]) # {}
  /\ calls["a"].pc \notin {"idle", "done"}
  /\ calls["b"].pc \notin {"idle", "done"}

\* The entries of a log with status "failed".
FailedEntries(log) == {k \in 1..Len(log) : log[k].status = "failed"}

\* The log entry is an outcome of an item of call st: it carries the index
\* of one of the call's items and the response or the error of the request
\* sent for that item.
OwnOutcome(st, r) ==
  /\ r.index \in 0..(Len(st.items) - 1)
  /\ LET rq == Processor(opts, st.kind, st.items[r.index + 1])
     IN \/ r.status = "completed" /\ r.result = Some(Response(rq))
        \/ /\ r.status = "failed"
           /\ \E outcome \in Outcomes \ {"ok"} : r.error = Some(Thrown(rq, outcome))

\* C22: the outcome log and the counters of a batch call are private to the
\* call.  With two batch calls overlapping, every snapshot delivered for a
\* call lists only outcomes of that call's items, each item at most once, and
\* its completed / failed / total count that call's items only.
C22_ProgressPrivateToCall ==
  \A c \in Calls :
     LET st == calls[c]
     IN \A k \in 1..Len(st.snaps) :
          LET s == st.snaps[k]
          IN /\ s.total = Len(st.items)
             /\ s.completed = Len(s.results)
             /\ s.failed = Cardinality(FailedEntries(s.results))
             /\ \A j \in 1..Len(s.results) : OwnOutcome(st, s.results[j])
             /\ \A i, j \in 1..Len(s.results) :
                   s.results[i].index = s.results[j].index => i = j

\* Both batch calls have reported an outcome while the other was running.
C22_Witness ==
  LET a == calls["a"]
      b == calls["b"]
  IN /\ IsBatch(a) /\ IsBatch(b)
     /\ a.pc \notin {"idle", "done"}
     /\ b.pc \notin {"idle", "done"}
     /\ a.completed > 0 /\ b.completed > 0
     /\ Len(a.snaps) > 1 /\ Len(b.snaps) > 1
     /\ InFlight(a) # {}

\* C23: a request answered with a non-2xx status surfaces as a structured
\* error with the HTTP status and the response body, a network failure as a
\* structured error without a status.
C23_StatusTellsHttpFromNetwork ==
  LET st == calls["a"]
  IN (st.kind = "single" /\ st.pc = "done" /\ st.req[1] \in {"http", "network"})
     => /\ error # Null
        /\ st.req[1] = "http"
             => /\ IsSome(error.status)
                /\ error.data = Some(<<"body", st.request[1]>>)
        /\ st.req[1] = "network" => error.status = None

\* C24: whenever login has resolved with a truthy result, the user is
\* logged in: isLoggedIn is true and me is non-null.
C24_LoginTruthyMeansLoggedIn ==
  (/\ auth.ret # None
   /\ Get(auth.ret).op = "login"
   /\ JsTruthy(Get(auth.ret).value))
  => (IsLoggedIn /\ auth.me # Null)

\* C25: after logout has resolved, me is null and isLoggedIn is false,
\* whether the logout request succeeded or failed.
C25_LoggedOutAfterLogout ==
  (auth.ret # None /\ Get(auth.ret).op = "logout")
  => (auth.me = Null /\ ~IsLoggedIn /\ ~auth.isLoading)

\* logout has resolved after its request failed, for a user whose profile
\* had been fetched.
C25_Witness ==
  /\ auth.ret # None
  /\ Get(auth.ret).op = "logout"
  /\ auth.logoutError # Null
  /\ MeFrom(auth.meData) = User
  /\ auth.fetchUserError = Null

\* C26: a batch that iterates the identifier list only runs with method
\* patch or delete, and a batch that iterates the file list only with method
\* post, whatever combination of ids and files was passed.
C26_BatchKindMatchesMethod ==
  LET st == calls["a"]
  IN /\ st.kind = "ids" => ToLowerCase(opts.method) \in {"patch", "delete"}
     /\ st.kind = "files" => ToLowerCase(opts.method) = "post"

\* C27: with concurrent = 1, for every batchSize, the requests of a batch
\* are issued one at a time in submission order: the requests sent so far
\* are those of the first items, in order, and all but the last have settled.
C27_OneAtATimeInOrder ==
  LET st == calls["a"]
      m == Len(st.sent)
  IN (IsBatch(st) /\ st.conc = Some(1))
     => /\ m <= Len(st.items)
        /\ \A k \in 1..m : st.sent[k] = Processor(opts, st.kind, st.items[k])
        /\ Launched(st) = 0..(m - 1)
        /\ InFlight(st) \subseteq {m - 1}

\* A batch of MaxItems items in chunks of MaxSize, run with concurrent = 1
\* to the end.
C27_Witness ==
  LET st == calls["a"]
  IN /\ IsBatch(st)
     /\ st.conc = Some(1)
     /\ st.bs = Some(MaxSize)
     /\ Len(st.items) = MaxItems
     /\ Len(st.sent) = MaxItems
     /\ st.pc = "done"
     /\ AllSucceeded(st)

\* C28: provided every issued request eventually settles, every execute
\* call eventually settles and sets pending back to false, for every integer
\* batchSize and concurrent and every item list.  Stated for the calls that
\* report to no progress callback.
C28_ExecuteSettles ==
  (calls["a"].pc \notin {"idle", "done"} /\ calls["a"].prog = "none")
     ~> (calls["a"].pc = "done" /\ ~pending)

\* The same for calls whose batchSize and concurrent are unset or positive.
C28_ExecuteSettlesOnValidSizes ==
  (calls["a"].pc \notin {"idle", "done"} /\ ValidSizes(calls["a"]))
     ~> (calls["a"].pc = "done" /\ ~pending)

\* C29: every request addressed by an identifier (the id of a single-item
\* call, each element of ids in a batch) is sent to basePath/<identifier>,
\* for every string or number identifier including 0 and "".
C29_AddressedByIdentifier ==
  LET st == calls["a"]
  IN /\ (st.kind = "single" /\ IsSome(st.eo.id) /\ st.pc # "idle")
          => st.sent[1].path = <<BasePath, Get(st.eo.id)>>
     /\ st.kind = "ids"
          => \A p \in Launched(st) :
                st.request[p + 1].path = <<BasePath, st.items[p + 1]>>

\* The same for truthy identifiers only.
C29_AddressedByTruthyIdentifier ==
  LET st == calls["a"]
  IN /\ (st.kind = "single" /\ IsSome(st.eo.id) /\ st.pc # "idle"
           /\ Boolean(Get(st.eo.id)))
          => st.sent[1].path = <<BasePath, Get(st.eo.id)>>
     /\ st.kind = "ids"
          => \A p \in Launched(st) :
                Boolean(st.items[p + 1])
                  => st.request[p + 1].path = <<BasePath, st.items[p + 1]>>

\* C30: an item whose request succeeded is recorded exactly once in the
\* outcome log, with status completed, and counted once in completed and not
\* at all in failed, also when the progress callback throws while it is told
\* of the success.
C30_SuccessLoggedOnce ==
  LET st == calls["a"]
      log == st.progressResults
      Settled == Launched(st) \ InFlight(st)
  IN (IsBatch(st) /\ ValidSizes(st))
     => /\ \A p \in Settled :
             st.req[p + 1] = "ok"
               => /\ Cardinality({k \in 1..Len(log) : log[k].index = p}) = 1
                  /\ \A k \in 1..Len(log) :
                        log[k].index = p => log[k].status = "completed"
        /\ st.completed = Cardinality(Settled)
        /\ st.failed = Cardinality(Failures(st))

\* C31: in every progress snapshot delivered for a batch call,
\* 0 <= failed <= completed <= total, results has exactly `completed`
\* entries with pairwise distinct indices in 0..total-1, and exactly `failed`
\* of them have status failed.
C31_SnapshotCountsConsistent ==
  LET st == calls["a"]
  IN \A k \in 1..Len(st.snaps) :
        LET s == st.snaps[k]
            Idx == {s.results[j].index : j \in 1..Len(s.results)}
        IN /\ 0 <= s.failed
           /\ s.failed <= s.completed
           /\ s.completed <= s.total
           /\ Len(s.results) = s.completed
           /\ Cardinality(Idx) = Len(s.results)
           /\ Idx \subseteq 0..(s.total - 1)
           /\ Cardinality({j \in 1..Len(s.results) :
                             s.results[j].status = "failed"}) = s.failed

\* A snapshot of a batch cut into several chunks reports every item settled,
\* one of them failed.
C31_Witness ==
  LET st == calls["a"]
  IN /\ IsBatch(st)
     /\ st.bs = Some(MaxSize)
     /\ Len(st.items) = MaxItems
     /\ Len(st.chunks) > 1
     /\ \E k \in 1..Len(st.snaps) :
           /\ st.snaps[k].completed = st.snaps[k].total
           /\ st.snaps[k].failed = 1

\* C32: the results of a progress snapshot is a copy taken when the callback
\* is notified: no later step changes a snapshot already delivered, and each
\* snapshot's results is the outcome log as it stood, a prefix of the log.
C32_SnapshotIsACopy ==
  /\ [][\A c \in Calls :
          /\ Len(calls'[c].snaps) >= Len(calls[c].snaps)
          /\ \A k \in 1..Len(calls[c].snaps) :
                calls'[c].snaps[k] = calls[c].snaps[k]]_vars
  /\ [](\A c \in Calls : \A k \in 1..Len(calls[c].snaps) :
          LET r == calls[c].snaps[k].results
          IN /\ Len(r) <= Len(calls[c].progressResults)
             /\ r = SubSeq(calls[c].progressResults, 1, Len(r)))

\* An earlier snapshot holds fewer outcomes than the log does now.
C32_Witness ==
  LET st == calls["a"]
  IN /\ IsBatch(st)
     /\ \E k \in 1..Len(st.snaps) :
           /\ Len(st.snaps[k].results) > 0
           /\ Len(st.snaps[k].results) < Len(st.progressResults)

\* C33: in every progress snapshot the progress percentage is an integer in
\* 0..100, and it is 100 only when completed = total.
C33_HundredOnlyWhenComplete ==
  meter.snap # None
    => LET s == Get(meter.snap)
       IN /\ s.progress \in 0..100
          /\ s.progress = 100 => s.completed = s.total

\* Sum of the numbers of a sequence.
RECURSIVE SumOf(_)
SumOf(s) == IF s = <<>> THEN 0 ELSE Head(s) + SumOf(Tail(s))

\* C34: in every progress snapshot with completed > 0, averageTime equals
\* the mean of the durations recorded for the operations settled so far
\* (their sum divided by completed), also when requests run concurrently.
C34_AverageIsMeanOfDurations ==
  (meter.snap # None /\ Get(meter.snap).completed > 0)
    => LET s == Get(meter.snap)
           avg == Get(s.averageTime)
       IN /\ s.averageTime # None
          /\ Len(meter.durations) = s.completed
          /\ avg[1] * s.completed = SumOf(meter.durations) * avg[2]

\* C35: once logout has resolved, me stays null until a login or fetchUser
\* call invoked after that logout completes; a login or fetchUser that was
\* in flight when logout ran does not set me afterwards.
C35_StaysLoggedOut ==
  [][(/\ auth.ret # None
      /\ Get(auth.ret).op = "logout"
      /\ auth.pc = "idle")
     => auth'.me = Null]_vars

\* C36: when the login request fails, login resolves to null, does not fetch
\* the user profile, and leaves me (and the fetched profile) as they were.
C36_FailedLoginLeavesMe ==
  [][(auth.pc = "login" /\ auth'.loginError # Null)
     => /\ auth'.ret = Some([op |-> "login", value |-> Null])
        /\ auth'.pc = "idle"
        /\ auth'.me = auth.me
        /\ auth'.meData = auth.meData
        /\ auth'.fetchUserError = auth.fetchUserError]_vars

\* login has resolved to null after its request failed, for a user whose
\* profile had been fetched: me is still that user.
C36_Witness ==
  /\ auth.ret = Some([op |-> "login", value |-> Null])
  /\ auth.loginError # Null
  /\ auth.me = User

\* The expiry time the request's cookie carries has passed.
ExpiryPassed(q) ==
  \E n \in 0..9 : q.cookies.expTime = Some(ToString(n)) /\ q.now > n * 1000

\* The request carries no access token.
AccessTokenMissing(q) == q.cookies.accessToken \in {None, Some("")}

\* C37: whenever the middleware sets the authorization header, its bearer
\* value is the access-token cookie of a request whose expiry time has not
\* passed, or the access token a refresh call returned during that request;
\* when the access token is missing or expired and refresh is impossible or
\* fails, no header is set and the request passes without an error.
C37_BearerIsValidOrRefreshed ==
  \A r \in Reqs :
    LET q == server.req[r]
    IN /\ q.authorization # None
          => \/ /\ ~AccessTokenMissing(q)
                /\ ~ExpiryPassed(q)
                /\ q.authorization = Some("Bearer " \o Get(q.cookies.accessToken))
             \/ /\ q.refreshed # None
                /\ Get(q.refreshed).tag = "returned"
                /\ Get(q.refreshed).accessToken # None
                /\ q.authorization =
                     Some("Bearer " \o Get(Get(q.refreshed).accessToken))
       /\ (/\ q.pc = "done"
           /\ (AccessTokenMissing(q) \/ ExpiryPassed(q))
           /\ \/ q.cookies.refreshToken \in {None, Some("")}
              \/ q.refreshed = Some([tag |-> "threw"]))
          => (q.authorization = None /\ ~q.threw)
       /\ ~q.threw

\* A request with an expired access token was refreshed and carries the new
\* token; another with an expired access token and no refresh token passed
\* without a header.
C37_Witness ==
  /\ server.req["r1"].pc = "done"
  /\ server.req["r1"].cookies.accessToken = Some("at0")
  /\ ExpiryPassed(server.req["r1"])
  /\ server.req["r1"].authorization = Some("Bearer at1")
  /\ server.req["r2"].pc = "done"
  /\ server.req["r2"].url = "/api/users"
  /\ server.req["r2"].cookies.accessToken = Some("at0")
  /\ server.req["r2"].cookies.refreshToken = None
  /\ ExpiryPassed(server.req["r2"])
  /\ server.req["r2"].authorization = None

\* C38: two requests the middleware handles at the same time with the same
\* expired access token and the same refresh token cause at most one refresh
\* call to the backend with that refresh token.
C38_RefreshSingleFlight ==
  \A r1, r2 \in Reqs :
    (/\ r1 # r2
     /\ server.req[r1].pc = "refreshing"
     /\ server.req[r2].pc = "refreshing"
     /\ server.req[r1].cookies = server.req[r2].cookies
     /\ ExpiryPassed(server.req[r1]))
    => Cardinality({i \in DOMAIN server.refreshCalls :
                      server.refreshCalls[i].refreshToken
                        = Get(server.req[r1].cookies.refreshToken)}) <= 1

\* C39: the logout handler always deletes the access-token, refresh-token
\* and expiry cookies and never throws; when the backend call fails it
\* returns the local-completion result.
C39_LogoutAlwaysClearsCookies ==
  /\ ~server.logout.threw
  /\ server.logout.pc = "done"
     => /\ server.logout.deleted
             = {"ACCESS_TOKEN_KEY", "REFRESH_TOKEN_KEY", "EXP_TIME_KEY"}
        /\ server.logout.result # None
        /\ server.logout.backend # Some("ok")
           => server.logout.result
                = Some([success |-> FALSE, message |-> "Logout completed locally"])

\* The handler has returned after its backend call failed.
C39_Witness ==
  /\ server.logout.pc = "done"
  /\ server.logout.backend = Some("network")
  /\ server.logout.refreshToken = Some("rt0")

====
